---- MODULE Spec2Model ----
(***************************************************************************)
(* A model of onadata's Google Sheets export builder                       *)
(* (onadata/libs/utils/google_sheets_tools.py) and of the data endpoint    *)
(* (onadata/apps/api/viewsets/data_viewset.py).                            *)
(*                                                                         *)
(* The remote spreadsheet service is modelled by what the builder asks of  *)
(* it: every remote call is assumed to succeed, a created spreadsheet has  *)
(* one sheet with the grid it was asked for, and appendDimension grows the *)
(* grid by the requested length.  Of a sheet the model keeps the grid      *)
(* properties, which is all the builder reads back.                        *)
(***************************************************************************)
EXTENDS Integers, Sequences, FiniteSets, TLC

VARIABLES
    sheets,     \* the remote service: spreadsheetId -> its first sheet
    created,    \* number of spreadsheets().create calls the service has served
    exports,    \* number of export calls made so far
    op,         \* the last handler run, with its inputs and what it read
    calls,      \* the remote calls of the last handler, in order (summaries)
    builder,    \* the last builder's fields: spread_sheet_details, url
    db,         \* the data endpoint's submissions: pk -> Instance
    resp,       \* the data endpoint's last request and its response
    running     \* live_update calls that run side by side: where each is

vars == <<sheets, created, exports, op, calls, builder, db, resp, running>>

----------------------------------------------------------------------------
(* Bounds of the model *)

MaxData == 2        \* submissions handed to one export / live_update
MaxKids == 2        \* children of one repeat group in one submission
MaxSheets == 2      \* spreadsheets on the remote service
MaxRows == 3        \* rows a sheet may grow to
MaxInstances == 2   \* submissions in the database that requests change
MaxRecords == 3     \* submissions in the database that requests read
MaxClock == 1       \* values timezone.now() takes

None == "None"
NoRaise == "none"

----------------------------------------------------------------------------
(* The survey and the builder's inputs *)

INDEX == "_index"
PARENT_INDEX == "_parent_index"

\* ExportBuilder.EXTRA_FIELDS: the meta columns every section carries.
EXTRA_FIELDS == <<"_id", INDEX, "_parent_table_name", PARENT_INDEX>>

\* Two surveys: one with the main section only, one with a repeat group.
\* sections lists the main section first (ExportBuilder.set_survey).
Flat == [name |-> "survey",
         sections |-> << [name |-> "survey",
                          elements |-> << [title |-> "Age", xpath |-> "age"],
                                          [title |-> "Sex", xpath |-> "sex"] >>] >>]

Nested == [name |-> "household",
           sections |-> << [name |-> "household",
                            elements |-> << [title |-> "Head", xpath |-> "head"],
                                            [title |-> "Size", xpath |-> "size"] >>],
                           [name |-> "kids",
                            elements |-> << [title |-> "Name",
                                             xpath |-> "kids/name"] >>] >>]

Surveys == {Flat, Nested}

Dict(f) == [type |-> "dict", val |-> f]
List(s) == [type |-> "list", val |-> s]

\* The answers of one section; answer tells one child's from another's.
SectionDict(section, answer) ==
    [x \in {section.elements[i].xpath : i \in 1..Len(section.elements)} |-> answer]

\* What dict_to_joined_export (decoded) gives for one submission: a dict for
\* the main section, a list of child dicts for a repeat group that has data,
\* and no key for a repeat group without data.
Outputs(survey) ==
    LET main == survey.sections[1]
        plain == (main.name :> Dict(SectionDict(main, "v")))
    IN  {plain}
        \cup
        IF Len(survey.sections) = 1 THEN {}
        ELSE LET rep == survey.sections[2]
             IN  {plain @@ (rep.name :> List([j \in 1..k |-> SectionDict(rep, ToString(j))])) :
                    k \in 1..MaxKids}

RECURSIVE SeqsUpTo(_, _)
SeqsUpTo(S, n) ==
    IF n = 0 THEN {<<>>}
    ELSE LET shorter == SeqsUpTo(S, n - 1)
         IN  shorter \cup {Append(s, x) : s \in {t \in shorter : Len(t) = n - 1}, x \in S}

DataOf(survey) == SeqsUpTo(Outputs(survey), MaxData)

\* A builder is constructed for a form's survey and handed that form's data.
BuilderInputs == UNION {{[survey |-> survey, data |-> data] : data \in DataOf(survey)} :
                          survey \in Surveys}

RECURSIVE Flatten(_)
Flatten(ss) == IF ss = <<>> THEN <<>> ELSE Head(ss) \o Flatten(Tail(ss))

----------------------------------------------------------------------------
(* The remote service, as a value threaded through a handler:              *)
(* [sheets, created, calls, raised]                                        *)

Service == [sheets |-> sheets, created |-> created, calls |-> <<>>, raised |-> NoRaise]

Raise(svc, error) == [svc EXCEPT !.raised = error]

\* spreadsheets().create
new_spread_sheets(svc, title, sheet_title, columns, rows) ==
    LET id == Len(svc.sheets) + 1
    IN  [svc EXCEPT
           !.sheets = Append(@, [sheetId |-> 0,
                                 columnCount |-> columns, rowCount |-> rows]),
           !.created = @ + 1,
           !.calls = Append(@, [api |-> "create", spreadsheetId |-> id,
                                title |-> title, sheet_title |-> sheet_title])]

\* A live update that makes a new document instead of reading the one given.
get_spread_sheet_recreating(svc, spread_sheet_id) ==
    new_spread_sheets(svc, "copy", "copy", 1, 1)

\* spreadsheets().get
get_spread_sheet(svc, spread_sheet_id) ==
    [svc EXCEPT !.calls = Append(@, [api |-> "get", spreadsheetId |-> spread_sheet_id])]

\* spreadsheets().values().update: data is written from cell A<index> of the
\* sheet named section
set_spread_sheet_data(svc, spread_sheet_id, data, section, index) ==
    [svc EXCEPT !.calls = Append(@, [api |-> "values.update",
                                     spreadsheetId |-> spread_sheet_id,
                                     section |-> section, index |-> index,
                                     values |-> data])]

\* The requests of one batchUpdate.
DimensionRequests(sheet_id, columns, rows) ==
    (IF columns # 0
       THEN << [appendDimension |-> "COLUMNS", sheetId |-> sheet_id, length |-> columns] >>
       ELSE <<>>)
    \o
    (IF rows # 0
       THEN << [appendDimension |-> "ROWS", sheetId |-> sheet_id, length |-> rows] >>
       ELSE <<>>)

RECURSIVE Added(_, _)
Added(requests, dimension) ==
    IF requests = <<>> THEN 0
    ELSE (IF Head(requests).appendDimension = dimension THEN Head(requests).length ELSE 0)
         + Added(Tail(requests), dimension)

\* spreadsheets().batchUpdate with the appendDimension requests
add_row_or_column(svc, spread_sheet_id, sheet_id, columns, rows) ==
    LET requests == DimensionRequests(sheet_id, columns, rows)
    IN  [svc EXCEPT
           !.sheets[spread_sheet_id].columnCount = @ + Added(requests, "COLUMNS"),
           !.sheets[spread_sheet_id].rowCount = @ + Added(requests, "ROWS"),
           !.calls = Append(@, [api |-> "batchUpdate",
                                spreadsheetId |-> spread_sheet_id,
                                requests |-> requests])]

----------------------------------------------------------------------------
(* GoogleSheetsExportBuilder *)

Titles(section) == [i \in 1..Len(section.elements) |-> section.elements[i].title]
Xpaths(section) == [i \in 1..Len(section.elements) |-> section.elements[i].xpath]

\* The loop overwrites section_name and headers: the last section's remain.
_get_headers(survey) ==
    LET section == survey.sections[Len(survey.sections)]
    IN  [section_name |-> section.name,
         headers |-> Titles(section) \o EXTRA_FIELDS]

HeaderRows(headers) == << headers >>

_add_headers(svc, headers, spread_sheet_id, section_name) ==
    set_spread_sheet_data(svc, spread_sheet_id, HeaderRows(headers), section_name, 1)

encode_if_str(row, key) == IF key \in DOMAIN row THEN row[key] ELSE None

prepare_row(data, fields) == [i \in 1..Len(fields) |-> encode_if_str(data, fields[i])]

pre_process_row(row, section) == row

\* output with the meta fields of the main section attached (lines 275-278)
WithMeta(output, survey_name, index) ==
    LET base == IF survey_name \in DOMAIN output THEN output[survey_name].val
                ELSE [x \in {} |-> None]
        meta == (INDEX :> index) @@ (PARENT_INDEX :> -1) @@ base
    IN  (survey_name :> Dict(meta)) @@ output

\* The rows one section contributes for one submission (lines 281-297)
SectionRows(output, section) ==
    LET fields == Xpaths(section) \o EXTRA_FIELDS
    IN  IF section.name \notin DOMAIN output THEN <<>>
        ELSE LET row == output[section.name]
             IN  IF row.type = "dict"
                   THEN << prepare_row(pre_process_row(row.val, section), fields) >>
                   ELSE [j \in 1..Len(row.val) |->
                           prepare_row(pre_process_row(row.val[j], section), fields)]

SubmissionRows(survey, d, index) ==
    LET output == WithMeta(d, survey.name, index)
    IN  Flatten([s \in 1..Len(survey.sections) |->
                   SectionRows(output, survey.sections[s])])

FlattenedRows(survey, data) ==
    Flatten([index \in 1..Len(data) |-> SubmissionRows(survey, data[index], index)])

\* finalized_rows of every input, computed once
RowsOfInput == [in \in BuilderInputs |-> FlattenedRows(in.survey, in.data)]

finalized_rows(survey, data) == RowsOfInput[[survey |-> survey, data |-> data]]

\* section_name is bound by the inner loop only: with no submission (or no
\* section) the name is unbound at line 301 and the method raises.
InsertDataRaises(survey, data) == data = <<>> \/ survey.sections = <<>>

InsertDataSection(survey) == survey.sections[Len(survey.sections)].name

_insert_data(svc, survey, details, data, row_index) ==
    IF InsertDataRaises(survey, data) THEN Raise(svc, "UnboundLocalError")
    ELSE set_spread_sheet_data(svc, details.spreadsheetId,
                               finalized_rows(survey, data),
                               InsertDataSection(survey), row_index)

\* a step of a handler: nothing more runs once an exception is raised
Then(svc, next) == IF svc.raised # NoRaise THEN svc ELSE next

\* A resize that adds the wanted number of columns, not the missing ones.
ColumnsToAdd_wanted(columns, current_columns) ==
    IF columns > current_columns THEN columns ELSE 0

ColumnsToAdd(columns, current_columns) ==
    IF columns > current_columns THEN columns - current_columns ELSE 0

RowsToAdd(rows, current_rows, append) ==
    IF append THEN (IF current_rows = 0 THEN rows ELSE rows - 1)
    ELSE IF rows > current_rows THEN rows - current_rows ELSE 0

StartIndex(current_rows, append) == IF append THEN current_rows + 1 ELSE 2

Details(svc, id) ==
    [spreadsheetId |-> id,
     sheetId |-> svc.sheets[id].sheetId,
     columnCount |-> svc.sheets[id].columnCount,
     rowCount |-> svc.sheets[id].rowCount]

\* GoogleSheetsExportBuilder.export
export(svc, survey, data) ==
    LET h == _get_headers(survey)
        columns == Len(h.headers)
        rows == Len(data) + 1
        s1 == new_spread_sheets(svc, survey.name, h.section_name, columns, rows)
        id == Len(s1.sheets)
        details == Details(s1, id)
        s2 == _add_headers(s1, h.headers, id, h.section_name)
        s3 == Then(s2, _insert_data(s2, survey, details, data, 2))
    IN  [svc |-> s3, details |-> details]

\* GoogleSheetsExportBuilder.live_update
live_update(svc, survey, data, spreadsheet_id, delete, update, append) ==
    LET h == _get_headers(survey)
        columns == Len(h.headers)
        rows == Len(data) + 1
        s1 == get_spread_sheet(svc, spreadsheet_id)
        details == Details(s1, spreadsheet_id)
        current_columns == details.columnCount
        current_rows == details.rowCount
        columns_to_add == ColumnsToAdd(columns, current_columns)
        rows_to_add == RowsToAdd(rows, current_rows, append)
        s2 == IF columns_to_add # 0 \/ rows_to_add # 0
                THEN add_row_or_column(s1, spreadsheet_id, details.sheetId,
                                       columns_to_add, rows_to_add)
                ELSE s1
        start_index == StartIndex(current_rows, append)
        s3 == _add_headers(s2, h.headers, spreadsheet_id, h.section_name)
        s4 == Then(s3, _insert_data(s3, survey, details, data, start_index))
    IN  [svc |-> s4, details |-> details]

----------------------------------------------------------------------------
(* The handlers as actions *)

\* What the model keeps of a remote call when it follows a spreadsheet over
\* many calls: of a values update, where it starts and the size of what it
\* writes.
RowWidth(data) ==
    IF data = <<>> THEN 0
    ELSE CHOOSE w \in {Len(data[i]) : i \in 1..Len(data)} :
            \A i \in 1..Len(data) : Len(data[i]) <= w

Summary(call) ==
    IF call.api # "values.update" THEN call
    ELSE [api |-> call.api, spreadsheetId |-> call.spreadsheetId,
          section |-> call.section, index |-> call.index,
          nrows |-> Len(call.values), ncols |-> RowWidth(call.values)]

Summaries(cs) == [i \in 1..Len(cs) |-> Summary(cs[i])]

NoOp == [name |-> "none"]
NoBuilder == [spread_sheet_details |-> None, url |-> None]

\* The data endpoint takes no part in an export: no submissions, no request.
NoDb == <<>>
NoResp == [handler |-> "none"]

\* No calls run side by side.
NoRun == <<>>

Commit(svc, full) ==
    /\ sheets' = svc.sheets
    /\ created' = svc.created
    /\ calls' = IF full THEN svc.calls ELSE Summaries(svc.calls)

BuilderAfter(r) ==
    [spread_sheet_details |-> r.details,
     url |-> IF r.svc.raised = NoRaise THEN r.details.spreadsheetId ELSE None]

\* A builder is made for one call and dropped when the call has returned.
Idle == op = NoOp

\* export(data) by a builder made for in.survey; full tells whether the
\* payloads of the remote calls are kept or their summaries.
DoExport(full) ==
    /\ Idle
    /\ Len(sheets) < MaxSheets
    /\ \E in \in BuilderInputs :
       \E r \in {export(Service, in.survey, in.data)} :
          /\ Commit(r.svc, full)
          /\ builder' = BuilderAfter(r)
          /\ op' = [name |-> "export", survey |-> in.survey.name,
                    data |-> IF full THEN in.data ELSE Len(in.data),
                    ndata |-> Len(in.data), raised |-> r.svc.raised]
    /\ exports' = exports + 1
    /\ UNCHANGED <<db, resp, running>>

\* live_update(data, spreadsheet_id, delete, update, append) on a spreadsheet
\* of the service
DoLiveUpdate(full) ==
    /\ Idle
    /\ \E spreadsheet_id \in 1..Len(sheets) :
       \E in \in BuilderInputs :
       \E delete \in BOOLEAN, update \in BOOLEAN, append \in BOOLEAN :
       \E r \in {live_update(Service, in.survey, in.data, spreadsheet_id,
                              delete, update, append)} :
          /\ r.svc.sheets[spreadsheet_id].rowCount <= MaxRows
          /\ Commit(r.svc, full)
          /\ builder' = BuilderAfter(r)
          /\ op' = [name |-> "live_update", survey |-> in.survey.name,
                    data |-> IF full THEN in.data ELSE Len(in.data),
                    ndata |-> Len(in.data), raised |-> r.svc.raised,
                    spreadsheet_id |-> spreadsheet_id,
                    delete |-> delete, update |-> update, append |-> append]
    /\ UNCHANGED <<exports, db, resp, running>>

Export == DoExport(FALSE)

LiveUpdate == DoLiveUpdate(FALSE)

\* The call has returned: its builder and its record of calls are dropped.
Return ==
    /\ ~Idle
    /\ op' = NoOp
    /\ calls' = <<>>
    /\ builder' = NoBuilder
    /\ UNCHANGED <<sheets, created, exports, db, resp, running>>

Init ==
    /\ sheets = <<>>
    /\ created = 0
    /\ exports = 0
    /\ op = NoOp
    /\ calls = <<>>
    /\ builder = NoBuilder
    /\ db = NoDb
    /\ resp = NoResp
    /\ running = NoRun

Next == Export \/ LiveUpdate \/ Return

Spec == Init /\ [][Next]_vars

----------------------------------------------------------------------------
(* One call of a builder, with the payloads it sends: the spreadsheet it   *)
(* updates is one an earlier export has made.                              *)

ExportedGrids ==
    {[sheetId |-> 0, columnCount |-> Len(_get_headers(survey).headers),
      rowCount |-> n + 1] : survey \in Surveys, n \in 0..MaxData}

BuilderInit ==
    /\ sheets \in {<<>>} \cup {<<g>> : g \in ExportedGrids}
    /\ created = Len(sheets)
    /\ exports = Len(sheets)
    /\ op = NoOp
    /\ calls = <<>>
    /\ builder = NoBuilder
    /\ db = NoDb
    /\ resp = NoResp
    /\ running = NoRun

FullExport == DoExport(TRUE)

FullLiveUpdate == DoLiveUpdate(TRUE)

BuilderNext == FullExport \/ FullLiveUpdate

BuilderSpec == BuilderInit /\ [][BuilderNext]_vars

----------------------------------------------------------------------------
(* Two live_update(append=True) calls on one spreadsheet, each by a builder *)
(* of its own, running side by side.  A call is a sequence of remote calls *)
(* (read the sheet details, append rows, write the header, write the data) *)
(* and nothing orders the remote calls of one call against the other's.    *)

Callers == 1..2

\* the remote calls of a step, marked with the call that made them
By(p, cs) == [i \in 1..Len(cs) |-> cs[i] @@ [by |-> p]]

\* The service has served the remote calls of a step of call p.
Remote(p, svc) ==
    /\ sheets' = svc.sheets
    /\ created' = svc.created
    /\ calls' = calls \o By(p, Summaries(svc.calls))
    /\ UNCHANGED <<exports, op, builder, db, resp>>

\* self.spread_sheet_details = get_spread_sheet(self.service, spreadsheet_id)
ReadDetails(p) ==
    /\ running[p].pc = "get"
    /\ \E svc \in {get_spread_sheet(Service, running[p].spreadsheet_id)} :
          /\ Remote(p, svc)
          /\ running' = [running EXCEPT
                           ![p].pc = "resize",
                           ![p].details =
                               Details(svc, running[p].spreadsheet_id)]

\* add_row_or_column(...) when there is something to add, from the details
\* the call has read
Resize(p) ==
    /\ running[p].pc = "resize"
    /\ LET r == running[p]
           columns == Len(_get_headers(r.survey).headers)
           rows == Len(r.data) + 1
           columns_to_add == ColumnsToAdd(columns, r.details.columnCount)
           rows_to_add == RowsToAdd(rows, r.details.rowCount, TRUE)
       IN  \E svc \in {IF columns_to_add # 0 \/ rows_to_add # 0
                          THEN add_row_or_column(Service, r.spreadsheet_id,
                                                 r.details.sheetId,
                                                 columns_to_add, rows_to_add)
                          ELSE Service} :
              /\ Remote(p, svc)
              /\ running' = [running EXCEPT ![p].pc = "headers"]

\* self._add_headers(headers, spreadsheet_id, section_name)
WriteHeaders(p) ==
    /\ running[p].pc = "headers"
    /\ LET r == running[p]
           h == _get_headers(r.survey)
       IN  \E svc \in {_add_headers(Service, h.headers, r.spreadsheet_id,
                                      h.section_name)} :
              /\ Remote(p, svc)
              /\ running' = [running EXCEPT ![p].pc = "data"]

\* self._insert_data(data, row_index=start_index)
WriteData(p) ==
    /\ running[p].pc = "data"
    /\ LET r == running[p]
       IN  \E svc \in {_insert_data(Service, r.survey, r.details, r.data,
                                      StartIndex(r.details.rowCount, TRUE))} :
              /\ Remote(p, svc)
              /\ running' = [running EXCEPT
                               ![p].pc = IF svc.raised # NoRaise
                                           THEN "raised" ELSE "done"]

\* The spreadsheet is one an export of the survey has made and earlier
\* appends may have extended; both calls are about to start.
ConcurrentInit ==
    /\ \E survey \in Surveys, n \in 0..MaxData :
          /\ sheets = << [sheetId |-> 0,
                          columnCount |-> Len(_get_headers(survey).headers),
                          rowCount |-> n + 1] >>
          /\ \E data \in [Callers -> DataOf(survey)] :
                running = [p \in Callers |->
                             [pc |-> "get", survey |-> survey,
                              data |-> data[p], spreadsheet_id |-> 1,
                              details |-> None]]
    /\ created = 1
    /\ exports = 1
    /\ op = NoOp
    /\ calls = <<>>
    /\ builder = NoBuilder
    /\ db = NoDb
    /\ resp = NoResp

ConcurrentNext ==
    \E p \in Callers :
        ReadDetails(p) \/ Resize(p) \/ WriteHeaders(p) \/ WriteData(p)

ConcurrentSpec == ConcurrentInit /\ [][ConcurrentNext]_vars

----------------------------------------------------------------------------
(* DataViewSet, the data endpoint.  A request carries the user, the       *)
(* method, the keyword arguments of the route (pk, dataid, format, label) *)
(* and the query parameters, all of them text.  None is Python's None and *)
(* Absent a key that the dict does not hold.                              *)

Absent == "Absent"

public_data_endpoint == "public"

paginate_by == 1000000

serializer_class == "DataSerializer"

OSM == "osm"

\* the permission to view, asked for in place of the one to delete
CAN_DELETE_SUBMISSION_view == "view_xform"

CAN_DELETE_SUBMISSION == "delete_submission"

\* dict.get(key, default)
Get(value, default) == IF value = Absent THEN default ELSE value

\* the truth value of None or of a text
Truthy(value) == value \notin {None, Absent, ""}

\* str(value): None reads "None"
str(value) == IF value = None THEN "None" ELSE value

\* the integers the numerals of a request stand for
Numbers == -1..(MaxRecords + MaxInstances + 1)

\* the numeral of each of them
Numeral == [n \in Numbers |-> ToString(n)]

\* a check of the text that lets a sign through
isdigit_signed(text) == \E n \in Numbers : Numeral[n] = text

\* str.isdigit(): the text is made of decimal digits and nothing else
isdigit(text) == \E n \in Numbers : n >= 0 /\ Numeral[n] = text

\* int(text) raises ValueError unless the text is a numeral
IsNumeral(text) == \E n \in Numbers : Numeral[n] = text

int(text) == CHOOSE n \in Numbers : Numeral[n] = text

\* An int that may be None: <<>> is None, <<n>> is n.
NoInt == <<>>

\* parse_int(num): None for None and for a text that is no numeral
parse_int(num) == IF IsNumeral(num) THEN <<int(num)>> ELSE NoInt

IntTruthy(num) == num # NoInt /\ num[1] # 0

\* text.split(',') for the tag lists requests send
split(text) ==
    CASE text = "a,b" -> {"a", "b"}
      [] text = "b,a" -> {"b", "a"}
      [] OTHER -> {text}

\* What a call gives back: a value, or the exception it raised.
Ok(value) == [raised |-> NoRaise, value |-> value]

Raised(error, detail) == [raised |-> error, detail |-> detail]

Response(data, status) == [raised |-> NoRaise, status |-> status, data |-> data]

HTTP_200_OK == 200
HTTP_201_CREATED == 201
HTTP_204_NO_CONTENT == 204
HTTP_400_BAD_REQUEST == 400
HTTP_404_NOT_FOUND == 404

\* XForm.objects: the forms, by pk.  No request of the endpoint changes them.
XForms ==
    <<[shared |-> FALSE, shared_data |-> FALSE, tags |-> {"a"}],
      [shared |-> FALSE, shared_data |-> TRUE, tags |-> {"a", "b"}],
      [shared |-> TRUE, shared_data |-> FALSE, tags |-> {}],
      [shared |-> FALSE, shared_data |-> FALSE, tags |-> {"b"}]>>

Users == {"owner", "viewer"}

\* user.has_perm(perm, xform): the owner holds every permission on every
\* form but the last, the viewer may only view the first form.
has_perm(user, perm, xform) ==
    IF user = "owner" THEN xform # Len(XForms)
    ELSE xform = 1 /\ perm = "view_xform"

\* Instance.objects: db maps the pk of a submission to its row.
Instance(xform, deleted_at, tags, age) ==
    [xform |-> xform, deleted_at |-> deleted_at, tags |-> tags, age |-> age]

\* deleted_at is <<>> for None and <<t>> for the time t
NotDeleted == <<>>

\* the filter backends: the forms the user may view
super_filter_queryset(request) ==
    {f \in DOMAIN XForms : has_perm(request.user, "view_xform", f)}

_get_public_forms_queryset ==
    {f \in DOMAIN XForms : XForms[f].shared \/ XForms[f].shared_data}

\* a lookup that stops at the forms the user may view
_filtered_or_shared_qs_own(qs, pk) ==
    IF {f \in qs : f = int(pk)} # {} THEN Ok({f \in qs : f = int(pk)})
    ELSE Raised("Http404", "No data matches with given query.")

_filtered_or_shared_qs(qs, pk) ==
    LET filtered == {f \in qs : f = int(pk)}
        shared == {f \in DOMAIN XForms : f = int(pk) /\ XForms[f].shared_data}
    IN  IF filtered # {} THEN Ok(filtered)
        ELSE IF shared # {} THEN Ok(shared)
        ELSE Raised("Http404", "No data matches with given query.")

\* qs.filter(tags__name__in=tags) and qs.exclude(tags__name__in=not_tagged)
\* where tags_of maps a row to its tags
TagFiltered(qs, tags_of, tags, not_tagged) ==
    LET tagged == IF Truthy(tags)
                    THEN {x \in qs : tags_of[x] \cap split(tags) # {}}
                    ELSE qs
    IN  IF Truthy(not_tagged)
          THEN {x \in tagged : tags_of[x] \cap split(not_tagged) = {}}
          ELSE tagged

FormTags == [f \in DOMAIN XForms |-> XForms[f].tags]

filter_queryset(request) ==
    LET qs == super_filter_queryset(request)
        pk == Get(request.pk, None)
    IN  IF Truthy(pk)
          THEN IF ~IsNumeral(pk)
                 THEN IF pk = public_data_endpoint
                        THEN Ok(_get_public_forms_queryset)
                        ELSE Raised("ParseError", "Invalid pk")
                 ELSE _filtered_or_shared_qs(qs, pk)
          ELSE Ok(TagFiltered(qs, FormTags, request.tags, request.not_tagged))

\* ModelViewSet.get_object: the form of the filtered queryset with the pk of
\* the route, when the permission class lets the request through
super_get_object(request) ==
    LET qs == filter_queryset(request)
        pk == Get(request.pk, None)
    IN  IF qs.raised # NoRaise THEN qs
        ELSE LET found == {f \in qs.value : IsNumeral(pk) /\ f = int(pk)}
             IN  IF found = {} THEN Raised("Http404", "Not found.")
                 ELSE IF ~request.permitted
                   THEN Raised("PermissionDenied", "permission_classes")
                 ELSE Ok([model |-> "XForm", pk |-> CHOOSE f \in found : TRUE])

get_object(request) ==
    LET obj == super_get_object(request)
        pk == Get(request.pk, None)
        dataid == Get(request.dataid, None)
    IN  IF obj.raised # NoRaise THEN obj
        ELSE IF pk # None /\ dataid # None
          THEN IF ~IsNumeral(dataid)
                 THEN Raised("ParseError", "Invalid dataid")
                 ELSE LET found == {i \in DOMAIN db : /\ i = int(dataid)
                                                       /\ db[i].xform = int(pk)}
                      IN  IF found = {} THEN Raised("Http404", "Not found.")
                          ELSE Ok([model |-> "Instance",
                                   pk |-> CHOOSE i \in found : TRUE])
          ELSE obj

\* a format that the query parameter decides before the route does
Format_query_first(request) ==
    IF request.GET_format # None THEN request.GET_format
    ELSE Get(request.format, None)

\* kwargs.get('format', request.GET.get("format"))
Format(request) == Get(request.format, request.GET_format)

get_serializer_class(request) ==
    LET pk == Get(request.pk, None)
        dataid == Get(request.dataid, None)
        fmt == Format(request)
        sort == request.sort
        fields == request.fields
    IN  IF fmt = OSM THEN "OSMSerializer"
        ELSE IF fmt = "geojson" THEN "GeoJsonSerializer"
        ELSE IF pk # None /\ dataid = None /\ pk # public_data_endpoint
          THEN IF Truthy(sort) \/ Truthy(fields)
                 THEN "JsonDataSerializer"
                 ELSE "DataInstanceSerializer"
        ELSE serializer_class

\* What a handler leaves behind: its response (or the exception it raised),
\* the submissions, the objects it looked up, and the total_count it set.
Result(response, rows, lookups) ==
    [response |-> response, db |-> rows, lookups |-> lookups,
     total_count |-> NoInt]

get_data_and_form(request) ==
    LET data_id == str(Get(request.dataid, None))
    IN  IF ~isdigit(data_id)
          THEN Raised("ParseError", "Data ID should be an integer")
          ELSE Ok(<<data_id, Get(request.format, None)>>)

\* Instance.set_deleted(deleted_at)
set_deleted(rows, pk, deleted_at) ==
    [rows EXCEPT ![pk].deleted_at = <<deleted_at>>]

destroy(request, now) ==
    LET object == get_object(request)
    IN  IF object.raised # NoRaise THEN Result(object, db, 1)
        ELSE IF object.value.model = "XForm"
          THEN Result(Raised("ParseError", "Data id not provided."), db, 1)
        ELSE IF has_perm(request.user, CAN_DELETE_SUBMISSION,
                         db[object.value.pk].xform)
          THEN Result(Response(None, HTTP_204_NO_CONTENT),
                      set_deleted(db, object.value.pk, now), 1)
          ELSE Result(Raised("PermissionDenied",
                             "You do not have delete permissions."), db, 1)

\* add_tags_to_instance(request, instance): the tags of the posted form
add_tags_to_instance(request, tags) == tags \cup request.post_tags

\* a status that does not look at the count
LabelDeleteStatus_ok(count, remaining) == HTTP_200_OK

LabelDeleteStatus(count, remaining) ==
    IF count > remaining THEN HTTP_200_OK ELSE HTTP_404_NOT_FOUND

\* The labels route carries a dataid: its object is a submission.
labels(request) ==
    LET object == get_object(request)
    IN  IF object.raised # NoRaise THEN Result(object, db, 1)
        ELSE
        LET pk == object.value.pk
            method == request.method
            tags == IF method = "POST"
                      THEN add_tags_to_instance(request, db[pk].tags)
                      ELSE db[pk].tags
            posted == IF method = "POST" THEN HTTP_201_CREATED
                      ELSE HTTP_400_BAD_REQUEST
            label == Get(request.label, None)
            removed == tags \ {label}
            data == IF method = "GET" /\ Truthy(label)
                      THEN {name \in tags : name = label}
                    ELSE IF method = "DELETE" /\ Truthy(label) THEN removed
                    ELSE tags
            left == IF method = "DELETE" /\ Truthy(label) THEN removed
                    ELSE tags
            http_status ==
                IF method = "GET" THEN HTTP_200_OK
                ELSE IF method = "DELETE" /\ Truthy(label)
                  THEN LabelDeleteStatus(Cardinality(tags),
                                         Cardinality(removed))
                ELSE posted
        IN  Result(Response(data, http_status),
                   [db EXCEPT ![pk].tags = left], 1)

UnknownFormat == "format unknown or not implemented!"

retrieve(request) ==
    LET checked == get_data_and_form(request)
        _format == Get(request.format, None)
        instance == get_object(request)
    IN  IF checked.raised # NoRaise THEN Result(checked, db, 0)
        ELSE IF instance.raised # NoRaise THEN Result(instance, db, 1)
        ELSE IF _format = "json" \/ _format = None \/ _format = "debug"
          THEN Result(Response([kind |-> "json", of |-> instance.value],
                               HTTP_200_OK), db, 1)
        ELSE IF _format = "xml"
          THEN Result(Response([kind |-> "xml", of |-> instance.value],
                               HTTP_200_OK), db, 1)
        ELSE IF _format = "geojson"
          THEN Result(Response([kind |-> "serialized",
                                serializer |-> get_serializer_class(request),
                                of |-> instance.value], HTTP_200_OK), db, 2)
        ELSE IF _format = OSM
          THEN Result(Response([kind |-> "serialized",
                                serializer |-> get_serializer_class(request),
                                of |-> [model |-> "OsmData",
                                        instance |-> instance.value.pk]],
                               HTTP_200_OK), db, 1)
        ELSE Result(Raised("ParseError", UnknownFormat), db, 1)

history(request) ==
    LET checked == get_data_and_form(request)
        _format == Get(request.format, None)
        instance == get_object(request)
    IN  IF checked.raised # NoRaise THEN Result(checked, db, 0)
        ELSE IF instance.raised # NoRaise THEN Result(instance, db, 1)
        ELSE IF _format = "json" \/ _format = None \/ _format = "debug"
          THEN Result(Response([kind |-> "history",
                                serializer |-> "InstanceHistorySerializer",
                                of |-> instance.value], HTTP_200_OK), db, 1)
        ELSE Result(Raised("ParseError", UnknownFormat), db, 1)

\* get_where_clause(query): the condition on the json of a submission that
\* the query text stands for; no condition for {}
get_where_clause(query) ==
    CASE query = "{}" -> Ok(NoInt)
      [] query = "{\"age\": 0}" -> Ok(<<0>>)
      [] query = "{\"age\": 1}" -> Ok(<<1>>)
      [] OTHER -> Raised("ValueError", "No JSON object could be decoded")

\* object_list.extra(where=where, params=where_params) over submissions
extra(object_list, where) ==
    IF where = NoInt THEN object_list
    ELSE [object_list EXCEPT !.pks = {i \in @ : db[i].age = where[1]}]

RECURSIVE order_by_pk(_)
order_by_pk(pks) ==
    IF pks = {} THEN <<>>
    ELSE LET least == CHOOSE p \in pks : \A q \in pks : p <= q
         IN  <<least>> \o order_by_pk(pks \ {least})

\* items[start:stop] for start and stop that are not negative
Slice(items, start, stop) ==
    SubSeq(items, start + 1, IF stop < Len(items) THEN stop ELSE Len(items))

\* A negative index: QuerySet asserts against it, and a build without
\* assert statements sends it to the database, which rejects it (DataError).
NegativeIndexing(asserts) ==
    IF asserts
      THEN Raised("AssertionError", "Negative indexing is not supported.")
      ELSE Raised("ParseError", "DataError")

\* paginate_queryset(object_list): the first page
paginate_queryset(items) ==
    SubSeq(items, 1, IF paginate_by < Len(items) THEN paginate_by
                     ELSE Len(items))

\* the first page of a queryset without an order
paginate_unordered(pks) ==
    IF Cardinality(pks) <= paginate_by THEN pks
    ELSE CHOOSE page \in SUBSET pks : Cardinality(page) = paginate_by

ListResult(response, total_count) ==
    [response |-> response, db |-> db, lookups |-> 0,
     total_count |-> total_count]

_get_data(request, object_list, query, fields, sort, start, limit, is_public_request, asserts) ==
    LET clause == get_where_clause(query)
    IN  IF clause.raised # NoRaise
          THEN ListResult(Raised("ParseError", clause.detail), NoInt)
        ELSE
        LET filtered == extra(object_list, clause.value)
            total_count == Cardinality(filtered.pks)
            serializer == get_serializer_class(request)
            unordered ==
                Response([kind |-> "page", serializer |-> serializer,
                          of |-> filtered.of,
                          pks |-> paginate_unordered(filtered.pks)],
                         HTTP_200_OK)
        IN  IF /\ (IntTruthy(start) /\ IntTruthy(limit)) \/ IntTruthy(limit)
               /\ ~Truthy(sort) /\ ~Truthy(fields)
              THEN LET first == IF start # NoInt THEN start[1] ELSE 0
                       last == IF first = 0 THEN limit[1]
                               ELSE first + limit[1]
                   IN  IF first < 0 \/ last < 0
                         THEN ListResult(NegativeIndexing(asserts),
                                         <<total_count>>)
                         ELSE ListResult(
                                Response([kind |-> "window",
                                          serializer |-> serializer,
                                          of |-> filtered.of,
                                          items |-> paginate_queryset(
                                              Slice(order_by_pk(filtered.pks),
                                                    first, last))],
                                         HTTP_200_OK),
                                <<total_count>>)
            ELSE IF /\ \/ Truthy(sort) \/ IntTruthy(limit)
                       \/ IntTruthy(start) \/ Truthy(fields)
                    /\ ~is_public_request
                    /\ total_count # 0
              THEN ListResult(
                     Response([kind |-> "query_data",
                               serializer |-> serializer,
                               xform |-> db[CHOOSE i \in filtered.pks : TRUE].xform,
                               query |-> query, sort |-> sort,
                               start_index |-> start, limit |-> limit,
                               fields |-> fields], HTTP_200_OK),
                     <<total_count>>)
            ELSE ListResult(unordered, <<total_count>>)

InstanceTags == [i \in DOMAIN db |-> db[i].tags]

NoList == [of |-> "none", pks |-> {}]

list(request, asserts) ==
    LET fields == request.fields
        query == Get(request.query, "{}")
        sort == request.sort
        start == parse_int(request.start)
        limit == parse_int(request.limit)
        export_type == Get(request.format, request.GET_format)
        lookup == Get(request.pk, None)
        is_public_request == lookup = public_data_endpoint
        serializer == get_serializer_class(request)
        qs == IF is_public_request THEN Ok(_get_public_forms_queryset)
              ELSE filter_queryset(request)
        object_list ==
            IF is_public_request THEN [of |-> "XForm", pks |-> qs.value]
            ELSE IF Truthy(lookup)
              THEN [of |-> "Instance",
                    pks |-> TagFiltered(
                        {i \in DOMAIN db : /\ db[i].xform \in qs.value
                                           /\ db[i].deleted_at = NotDeleted},
                        InstanceTags, request.tags, request.not_tagged)]
            ELSE NoList
        xform == get_object(request)
    IN  IF request.pk = Absent
          THEN IF qs.raised # NoRaise THEN ListResult(qs, NoInt)
               ELSE ListResult(Response([kind |-> "list",
                                         serializer |-> serializer,
                                         of |-> "XForm", pks |-> qs.value],
                                        HTTP_200_OK), NoInt)
        ELSE IF Truthy(lookup) /\ qs.raised # NoRaise
          THEN ListResult(qs, NoInt)
        ELSE IF /\ export_type \in {None, "json", "jsonp", "debug"}
                /\ object_list # NoList
          THEN _get_data(request, object_list, query, fields, sort, start,
                         limit, is_public_request, asserts)
        ELSE IF xform.raised # NoRaise
          THEN [ListResult(xform, NoInt) EXCEPT !.lookups = 1]
        ELSE IF export_type = OSM
          THEN [ListResult(Response([kind |-> "osm",
                                     serializer |-> serializer,
                                     xform |-> xform.value.pk],
                                    HTTP_200_OK), NoInt)
                EXCEPT !.lookups = 1]
        ELSE IF export_type = None \/ export_type \in {"json"}
          THEN [ListResult(Response([kind |-> "list",
                                     serializer |-> serializer,
                                     of |-> "XForm",
                                     pks |-> filter_queryset(request).value],
                                    HTTP_200_OK), NoInt)
                EXCEPT !.lookups = 1]
        ELSE IF export_type = "geojson"
          THEN IF object_list = NoList
                 THEN [ListResult(Raised("AttributeError", "object_list"),
                                  NoInt) EXCEPT !.lookups = 1]
                 ELSE [ListResult(Response([kind |-> "list",
                                            serializer |-> serializer,
                                            of |-> object_list.of,
                                            pks |-> object_list.pks],
                                           HTTP_200_OK), NoInt)
                       EXCEPT !.lookups = 1]
        ELSE [ListResult(Response([kind |-> "export",
                                   export_type |-> export_type,
                                   xform |-> xform.value.pk,
                                   query |-> query], HTTP_200_OK), NoInt)
              EXCEPT !.lookups = 1]

----------------------------------------------------------------------------
(* The requests the endpoint is sent *)

Request0 ==
    [user |-> "owner", method |-> "GET", permitted |-> TRUE,
     pk |-> Absent, dataid |-> Absent, format |-> Absent, label |-> Absent,
     GET_format |-> None, sort |-> None, fields |-> None, start |-> None,
     limit |-> None, query |-> Absent, tags |-> None, not_tagged |-> None,
     post_tags |-> {}]

Numerals(low, high) == {ToString(n) : n \in low..high}

SerializerRequests ==
    {[Request0 EXCEPT !.format = format, !.GET_format = GET_format,
                      !.pk = pk, !.dataid = dataid,
                      !.sort = sort, !.fields = fields] :
        format \in {Absent, None, "osm", "geojson", "json"},
        GET_format \in {None, "osm", "geojson", "csv"},
        pk \in {Absent, "1", "public"}, dataid \in {Absent, "1"},
        sort \in {None, "", "age"}, fields \in {None, "", "age"}}

WindowRequests ==
    {[Request0 EXCEPT !.pk = "1", !.query = query, !.sort = sort,
                      !.fields = fields, !.start = start, !.limit = limit,
                      !.tags = tags] :
        query \in {Absent, "{\"age\": 0}", "{\"age\": 1}", "{"},
        sort \in {None, "age"}, fields \in {None, "age"},
        start \in {None} \cup Numerals(-1, MaxRecords),
        limit \in {None} \cup Numerals(-1, MaxRecords),
        tags \in {None, "a"}}

FormatRequests ==
    {[Request0 EXCEPT !.user = user, !.pk = pk, !.GET_format = GET_format,
                      !.tags = tags, !.not_tagged = not_tagged] :
        user \in Users,
        pk \in {Absent, "public", "x"} \cup Numerals(1, Len(XForms)),
        GET_format \in {None, "json", "osm", "geojson", "csv"},
        tags \in {None, "a", "a,b"}, not_tagged \in {None, "b"}}

ListRequests == WindowRequests \cup FormatRequests

FilterRequests ==
    {[Request0 EXCEPT !.user = user, !.pk = pk, !.tags = tags,
                      !.not_tagged = not_tagged] :
        user \in Users,
        pk \in {Absent, "", "public", "x", "-1"}
                \cup Numerals(0, Len(XForms) + 1),
        tags \in {None, "a", "b", "a,b"}, not_tagged \in {None, "a", "b"}}

DetailRequests ==
    {[Request0 EXCEPT !.user = user, !.permitted = permitted, !.pk = pk,
                      !.dataid = dataid, !.format = format] :
        user \in Users, permitted \in BOOLEAN, pk \in {"1", "2", "x"},
        dataid \in {Absent, None, "x", "-1"} \cup Numerals(0, MaxRecords + 1),
        format \in {Absent, None, "json", "debug", "xml", "geojson", "osm",
                    "csv"}}

DestroyRequests ==
    {[Request0 EXCEPT !.method = "DELETE", !.user = user,
                      !.permitted = permitted, !.pk = pk, !.dataid = dataid] :
        user \in Users, permitted \in BOOLEAN, pk \in {"1", "2", "x"},
        dataid \in {Absent, "x"} \cup Numerals(1, MaxInstances + 1)}

LabelRequests ==
    {[Request0 EXCEPT !.method = method, !.permitted = permitted, !.pk = pk,
                      !.dataid = dataid, !.label = label,
                      !.post_tags = post_tags] :
        method \in {"GET", "POST", "DELETE"}, permitted \in BOOLEAN,
        pk \in {"1", "2"}, dataid \in Numerals(1, MaxInstances + 1),
        label \in {Absent, "a", "b"},
        post_tags \in {{}, {"a"}, {"a", "b"}}}

\* The request is answered: the response and what the handler did are kept.
Answer(handler, request, result) ==
    /\ db' = result.db
    /\ resp' = [handler |-> handler, request |-> request,
                response |-> result.response, lookups |-> result.lookups,
                total_count |-> result.total_count]
    /\ UNCHANGED <<sheets, created, exports, op, calls, builder, running>>

Waiting == resp = NoResp

GetSerializerClass ==
    /\ Waiting
    /\ \E request \in SerializerRequests :
          Answer("get_serializer_class", request,
                 Result(Ok(get_serializer_class(request)), db, 0))

FilterQueryset ==
    /\ Waiting
    /\ \E request \in FilterRequests :
          Answer("filter_queryset", request,
                 Result(filter_queryset(request), db, 0))

ListData ==
    /\ Waiting
    /\ \E request \in ListRequests, asserts \in BOOLEAN :
       \E result \in {list(request, asserts)} :
          Answer("list", request, result)

Retrieve ==
    /\ Waiting
    /\ \E request \in DetailRequests :
       \E result \in {retrieve(request)} :
          Answer("retrieve", request, result)

History ==
    /\ Waiting
    /\ \E request \in DetailRequests :
       \E result \in {history(request)} :
          Answer("history", request, result)

Destroy ==
    /\ Waiting
    /\ \E request \in DestroyRequests, now \in 1..MaxClock :
       \E result \in {destroy(request, now)} :
          Answer("destroy", request, result)

Labels ==
    /\ Waiting
    /\ \E request \in LabelRequests :
       /\ request.method # "POST" => request.post_tags = {}
       /\ \E result \in {labels(request)} :
             Answer("labels", request, result)

\* The response has been sent; the endpoint waits for the next request.
Respond ==
    /\ ~Waiting
    /\ resp' = NoResp
    /\ UNCHANGED <<sheets, created, exports, op, calls, builder, db, running>>

\* Requests that read: the submissions are those of one form, some of them
\* deleted, the first one tagged.
ReadDbs ==
    {[i \in 1..MaxRecords |->
        Instance(1, IF i \in deleted THEN <<1>> ELSE NotDeleted,
                 IF i = 1 THEN {"a"} ELSE {}, i % 2)] :
     deleted \in SUBSET (1..MaxRecords)}

ReadInit ==
    /\ sheets = <<>>
    /\ created = 0
    /\ exports = 0
    /\ op = NoOp
    /\ calls = <<>>
    /\ builder = NoBuilder
    /\ db \in ReadDbs
    /\ resp = NoResp
    /\ running = NoRun

ReadNext ==
    GetSerializerClass \/ FilterQueryset \/ ListData \/ Retrieve \/ History

ReadSpec == ReadInit /\ [][ReadNext]_vars

\* Requests that write: the submissions alternate between the first two
\* forms; none is deleted or tagged yet.
ViewInit ==
    /\ sheets = <<>>
    /\ created = 0
    /\ exports = 0
    /\ op = NoOp
    /\ calls = <<>>
    /\ builder = NoBuilder
    /\ db = [i \in 1..MaxInstances |->
                Instance(((i - 1) % 2) + 1, NotDeleted, {}, i % 2)]
    /\ resp = NoResp
    /\ running = NoRun

ViewNext == Destroy \/ Labels \/ Respond

ViewSpec == ViewInit /\ [][ViewNext]_vars

----------------------------------------------------------------------------
(* Properties of the export builder *)

SurveyNamed(name) == CHOOSE survey \in Surveys : survey.name = name

Max(a, b) == IF a >= b THEN a ELSE b

CallsOf(api) == {i \in 1..Len(calls) : calls[i].api = api}

\* the rows and columns the last handler asked the service to append
Appended(dimension) ==
    LET RECURSIVE Sum(_)
        Sum(i) == IF i = 0 THEN 0
                  ELSE (IF calls[i].api = "batchUpdate"
                          THEN Added(calls[i].requests, dimension) ELSE 0)
                       + Sum(i - 1)
    IN  Sum(Len(calls))

LiveUpdated == op.name = "live_update"

\* C1: live_update never creates a spreadsheet. The spreadsheets created on
\* the service are as many as the export calls made, and every remote call
\* of a live_update is a read, an appendDimension resize or a values update
\* of the spreadsheet whose id the call was given.
C1_LiveUpdateNeverCreates ==
    /\ created = exports
    /\ Len(sheets) = exports
    /\ LiveUpdated =>
         \A i \in 1..Len(calls) :
            /\ calls[i].api \in {"get", "batchUpdate", "values.update"}
            /\ calls[i].spreadsheetId = op.spreadsheet_id
            /\ calls[i].api = "batchUpdate" =>
                 \A j \in 1..Len(calls[i].requests) :
                    calls[i].requests[j].appendDimension \in {"COLUMNS", "ROWS"}

\* A live update of the first of two spreadsheets has read it, resized it and
\* written to it.
C1_Witness ==
    /\ LiveUpdated
    /\ Len(sheets) = 2
    /\ op.spreadsheet_id = 1
    /\ CallsOf("get") # {}
    /\ CallsOf("batchUpdate") # {}
    /\ Cardinality(CallsOf("values.update")) = 2

\* C2: a live_update step with append=False leaves the grid with
\* max(current_columns, len(headers)) columns and max(current_rows,
\* len(data) + 1) rows, appending exactly what is missing and sending no
\* resize request when nothing is; whatever its flags, a live_update step
\* never lowers a row or column count, and it leaves the other spreadsheets
\* as they were.
C2_LiveUpdateGrowsGridOnly ==
    [][(op.name = "none" /\ op'.name = "live_update") =>
        LET id == op'.spreadsheet_id
            headers == Len(_get_headers(SurveyNamed(op'.survey)).headers)
            rows == op'.ndata + 1
            resizes == {i \in 1..Len(calls') : calls'[i].api = "batchUpdate"}
        IN  /\ Len(sheets') = Len(sheets)
            /\ \A other \in 1..Len(sheets) : other # id => sheets'[other] = sheets[other]
            /\ sheets'[id].columnCount >= sheets[id].columnCount
            /\ sheets'[id].rowCount >= sheets[id].rowCount
            /\ ~op'.append =>
                 /\ sheets'[id].columnCount = Max(sheets[id].columnCount, headers)
                 /\ sheets'[id].rowCount = Max(sheets[id].rowCount, rows)
                 /\ (resizes = {}) <=> (sheets[id].columnCount >= headers
                                        /\ sheets[id].rowCount >= rows)
                 /\ Cardinality(resizes) <= 1
                 /\ \A i \in resizes :
                      /\ Added(calls'[i].requests, "COLUMNS")
                           = Max(sheets[id].columnCount, headers) - sheets[id].columnCount
                      /\ Added(calls'[i].requests, "ROWS")
                           = Max(sheets[id].rowCount, rows) - sheets[id].rowCount
                      /\ \A j \in 1..Len(calls'[i].requests) :
                           calls'[i].requests[j].length > 0
    ]_vars

\* A live update with delete and update set and append unset has appended
\* both missing columns and missing rows.
C2_Witness ==
    /\ LiveUpdated
    /\ ~op.append /\ op.delete /\ op.update
    /\ Appended("COLUMNS") > 0
    /\ Appended("ROWS") > 0

----------------------------------------------------------------------------
(* Properties of the rows the builder sends (payloads kept: BuilderSpec) *)

Position(fields, f) == CHOOSE i \in 1..Len(fields) : fields[i] = f

\* The rows the flattening is to produce, as (submission, section, child):
\* one per dict, one per child of a list, none for an absent section.
RowsWanted(survey, data) ==
    Flatten([i \in 1..Len(data) |->
      Flatten([s \in 1..Len(survey.sections) |->
        LET name == survey.sections[s].name
        IN  IF name = survey.name THEN << [sub |-> i, section |-> s, child |-> 0] >>
            ELSE IF name \notin DOMAIN data[i] THEN <<>>
            ELSE IF data[i][name].type = "dict"
                   THEN << [sub |-> i, section |-> s, child |-> 0] >>
                   ELSE [j \in 1..Len(data[i][name].val) |->
                           [sub |-> i, section |-> s, child |-> j]]])])

\* the row index _insert_data is handed by the last handler
RowIndexGiven ==
    IF op.name = "export" THEN 2
    ELSE IF op.append THEN builder.spread_sheet_details.rowCount + 1 ELSE 2

Handled == op.name \in {"export", "live_update"}

\* C6: _insert_data sends one values update, starting at row_index, that
\* holds the flattened rows: per submission in input order and per section
\* in section order one row for a dict and one row per child of a list, in
\* child order; the main section's row carries INDEX = the submission's
\* number and PARENT_INDEX = -1; every row has as many cells as its section
\* has elements and EXTRA_FIELDS.
C6_InsertDataSendsFlattenedRows ==
    Handled =>
      LET survey == SurveyNamed(op.survey)
          wanted == RowsWanted(survey, op.data)
          sent == {i \in CallsOf("values.update") : i > 1 /\ calls[i - 1].api = "values.update"}
      IN  /\ op.raised = NoRaise
          /\ Cardinality(sent) = 1
          /\ sent = {Len(calls)}
          /\ \A c \in sent :
               /\ calls[c].index = RowIndexGiven
               /\ Len(calls[c].values) = Len(wanted)
               /\ \A k \in 1..Len(wanted) :
                    LET section == survey.sections[wanted[k].section]
                        fields == Xpaths(section) \o EXTRA_FIELDS
                        row == calls[c].values[k]
                    IN  /\ Len(row) = Len(section.elements) + Len(EXTRA_FIELDS)
                        /\ wanted[k].child = 0 =>
                             /\ row[Position(fields, INDEX)] = wanted[k].sub
                             /\ row[Position(fields, PARENT_INDEX)] = -1
                        /\ wanted[k].child # 0 =>
                             row[1] = ToString(wanted[k].child)

\* C9: for every section of the survey, export and live_update write a
\* header row of that section's titles followed by EXTRA_FIELDS, addressed
\* to the section's name, and the rows of a section are written under that
\* section's name.
C9_HeadersForEachSection ==
    Handled =>
      LET survey == SurveyNamed(op.survey)
          wanted == RowsWanted(survey, op.data)
      IN  /\ \A s \in 1..Len(survey.sections) :
               \E i \in CallsOf("values.update") :
                  /\ calls[i].index = 1
                  /\ calls[i].section = survey.sections[s].name
                  /\ calls[i].values
                       = << Titles(survey.sections[s]) \o EXTRA_FIELDS >>
          /\ \A k \in 1..Len(wanted) :
               \E i \in CallsOf("values.update") :
                  /\ calls[i].index > 1
                  /\ calls[i].section = survey.sections[wanted[k].section].name

\* C10: a live_update(append=True) that writes data leaves the header in
\* row 1, writes its rows from row current_rows + 1 on, below every row the
\* sheet had, and extends the grid by exactly the rows it writes, so that
\* its batch ends on the last row of the grid and the next batch follows it
\* with no overlap and no empty row between.
C10_AppendLayout ==
    (LiveUpdated /\ op.append /\ op.raised = NoRaise) =>
      LET current_rows == builder.spread_sheet_details.rowCount
          batch == calls[Len(calls)]
          header == calls[Len(calls) - 1]
      IN  /\ header.index = 1 /\ header.nrows = 1
          /\ batch.index > 1
          /\ batch.index = current_rows + 1
          /\ Appended("ROWS") = batch.nrows
          /\ batch.index + batch.nrows - 1 = sheets[op.spreadsheet_id].rowCount

\* the spreadsheet the last handler wrote to
Written == IF op.name = "export" THEN Len(sheets) ELSE op.spreadsheet_id

\* C11: after export, and after live_update with append unset, every cell
\* written lies inside the grid of the sheet: the header row and the rows
\* of _insert_data end on or before row rowCount, and no written row has
\* more cells than columnCount.
C11_CellsWithinGrid ==
    (/\ op.name \in {"export", "live_update"}
     /\ op.raised = NoRaise
     /\ op.name = "live_update" => ~op.append) =>
        \A i \in CallsOf("values.update") :
            /\ calls[i].spreadsheetId = Written
            /\ calls[i].index + calls[i].nrows - 1 <= sheets[Written].rowCount
            /\ calls[i].ncols <= sheets[Written].columnCount

----------------------------------------------------------------------------
(* Properties of the data endpoint *)

Asked(handler) == resp.handler = handler

\* a parameter that is given: neither missing nor empty
Given(value) == value \notin {Absent, None, ""}

\* C3: get_serializer_class is a function of (format, pk, dataid, sort,
\* fields) with this precedence: format osm gives OSMSerializer; else format
\* geojson gives GeoJsonSerializer; else, when pk is set, dataid is absent
\* and pk is not public, JsonDataSerializer if sort or fields is given and
\* DataInstanceSerializer otherwise; in every other case DataSerializer. The
\* format is the format kwarg of the route, and the format query parameter
\* when the route holds no such kwarg.
C3_SerializerPrecedence ==
    Asked("get_serializer_class") =>
        LET request == resp.request
            format == IF request.format = Absent THEN request.GET_format
                      ELSE request.format
            of_form == /\ request.pk \notin {Absent, None}
                       /\ request.dataid \in {Absent, None}
                       /\ request.pk # "public"
            expected ==
                CASE format = "osm" -> "OSMSerializer"
                  [] format # "osm" /\ format = "geojson" ->
                        "GeoJsonSerializer"
                  [] format \notin {"osm", "geojson"} /\ of_form ->
                        IF Given(request.sort) \/ Given(request.fields)
                          THEN "JsonDataSerializer"
                          ELSE "DataInstanceSerializer"
                  [] OTHER -> "DataSerializer"
        IN  resp.response.value = expected

\* the query parameter names geojson, a form is addressed and a sort is
\* given, and the format of the route, held but None, hides them
C3_Witness ==
    /\ Asked("get_serializer_class")
    /\ resp.request.format = None
    /\ resp.request.GET_format = "geojson"
    /\ resp.request.pk = "1"
    /\ resp.request.dataid = Absent
    /\ resp.request.sort = "age"
    /\ resp.response.value = "JsonDataSerializer"

\* the submissions a list request on a form selects: those of the form that
\* are not deleted, carry one of the tags asked for and match the query
Selected(request) ==
    {i \in DOMAIN db :
        /\ ToString(db[i].xform) = request.pk
        /\ db[i].deleted_at = <<>>
        /\ request.tags # None => request.tags \in db[i].tags
        /\ request.query = "{\"age\": 0}" => db[i].age = 0
        /\ request.query = "{\"age\": 1}" => db[i].age = 1}

Min(a, b) == IF a <= b THEN a ELSE b

RECURSIVE Ascending(_)
Ascending(pks) ==
    IF pks = {} THEN <<>>
    ELSE LET top == CHOOSE p \in pks : \A q \in pks : q <= p
         IN  Append(Ascending(pks \ {top}), top)

\* the limit a request sends, 0 when it sends none
LimitOf(request) ==
    IF request.limit = None THEN 0
    ELSE CHOOSE n \in -1..MaxRecords : ToString(n) = request.limit

StartOf(request) ==
    IF request.start = None THEN 0
    ELSE CHOOSE n \in -1..MaxRecords : ToString(n) = request.start

\* a list request on a form with a limit that is not zero, neither sort nor
\* fields, and a query that can be read
Windowed ==
    /\ Asked("list")
    /\ resp.request \in WindowRequests
    /\ resp.request.query # "{"
    /\ LimitOf(resp.request) # 0
    /\ ~Given(resp.request.sort)
    /\ ~Given(resp.request.fields)

\* the windows (0, L), (L, L), (2L, L), ... of the request, one after the
\* other
RECURSIVE Windows(_, _, _)
Windows(request, L, k) ==
    IF k * L >= Cardinality(Selected(request)) THEN <<>>
    ELSE list([request EXCEPT !.start = ToString(k * L)],
              TRUE).response.data.items
         \o Windows(request, L, k + 1)

WindowOf(request) ==
    LET ordered == Ascending(Selected(request))
        start == StartOf(request)
        L == LimitOf(request)
    IN  /\ resp.response.raised = NoRaise
        /\ resp.response.data.kind = "window"
        /\ resp.response.data.items =
              [k \in 1..Max(0, Min(Len(ordered), start + L) - start) |->
                  ordered[start + k]]
        /\ Len(resp.response.data.items) <= L
        /\ resp.total_count = <<Len(ordered)>>

\* C4: for a list request on a form with a non-zero limit L and neither sort
\* nor fields, the response holds exactly the records at positions start ..
\* start+L-1 (start 0 when absent) of the query-filtered, non-deleted
\* submissions ordered by pk, so at most L records, and the windows (0,L),
\* (L,L), (2L,L), ... cover every record once; total_count is the size of
\* the filtered set before the window.
C4_LimitWindow ==
    Windowed =>
        /\ WindowOf(resp.request)
        /\ Windows(resp.request, LimitOf(resp.request), 0)
              = Ascending(Selected(resp.request))

\* a request has just been answered by the handler
Answered(handler) == resp.handler = "none" /\ resp'.handler = handler

\* the submission a request addresses with its pk and dataid, if there is one
Addressed(request) ==
    {i \in DOMAIN db : /\ ToString(i) = request.dataid
                       /\ ToString(db[i].xform) = request.pk}

\* the user holds CAN_DELETE_SUBMISSION on the form of the submission
MayDelete(request, i) ==
    has_perm(request.user, "delete_submission", db[i].xform)

\* C5: destroy marks a submission deleted, with the current time, and answers
\* 204 only when the request addresses a submission by pk and dataid and the
\* user holds CAN_DELETE_SUBMISSION on its form; when the user lacks the
\* permission PermissionDenied is raised and the submission is unchanged;
\* when the request addresses a form without a data id a parse error (Data
\* id not provided.) is raised and nothing is deleted.
C5_DestroyMarksDeleted ==
    [][Answered("destroy") =>
        LET request == resp'.request
            response == resp'.response
        IN  /\ (response.raised = NoRaise \/ db' # db) =>
                 /\ response.raised = NoRaise
                 /\ response.status = 204
                 /\ \E i \in Addressed(request) :
                       /\ MayDelete(request, i)
                       /\ \E now \in 1..MaxClock :
                             db' = [db EXCEPT ![i].deleted_at = <<now>>]
            /\ \A i \in Addressed(request) :
                  (get_object(request).raised = NoRaise
                        /\ ~MayDelete(request, i)) =>
                      /\ response.raised = "PermissionDenied"
                      /\ response.detail = "You do not have delete permissions."
                      /\ db' = db
            /\ (request.dataid = Absent
                    /\ get_object(request).raised = NoRaise) =>
                 /\ response.raised = "ParseError"
                 /\ response.detail = "Data id not provided."
                 /\ db' = db
    ]_vars

\* the owner of a form has deleted its first submission
C5_Witness ==
    /\ Asked("destroy")
    /\ resp.request.user = "owner"
    /\ resp.request.dataid = "1"
    /\ resp.response.raised = NoRaise
    /\ resp.response.status = 204
    /\ db[1].deleted_at # <<>>

Digits(dataid) == \E n \in 0..(MaxRecords + 1) : ToString(n) = dataid

\* the format kwarg of the route, None when the route holds none
Wanted(request) ==
    IF request.format = Absent THEN None ELSE request.format

\* C8: retrieve and history validate the data id first: a dataid that is
\* missing or not made of digits only yields a parse error (Data ID should
\* be an integer) before any object is looked up. Once the object is found,
\* retrieve answers the json of the submission for format json, debug or
\* none, its xml for xml, the serialized form for geojson and osm, and a
\* parse error for any other format; history answers the submission history
\* for json, debug or none and a parse error for every other format.
C8_DataIdValidatedFirst ==
    (Asked("retrieve") \/ Asked("history")) =>
        LET request == resp.request
            response == resp.response
            format == Wanted(request)
            plain == format \in {"json", "debug", None}
            unknown == /\ response.raised = "ParseError"
                       /\ response.detail = UnknownFormat
        IN  /\ ~Digits(request.dataid) =>
                 /\ response.raised = "ParseError"
                 /\ response.detail = "Data ID should be an integer"
                 /\ resp.lookups = 0
            /\ (Digits(request.dataid)
                    /\ get_object(request).raised = NoRaise) =>
                 /\ resp.lookups >= 1
                 /\ Asked("retrieve") =>
                       /\ plain => /\ response.raised = NoRaise
                                   /\ response.data.kind = "json"
                                   /\ response.data.of.pk
                                         \in Addressed(request)
                       /\ format = "xml" =>
                             /\ response.raised = NoRaise
                             /\ response.data.kind = "xml"
                             /\ response.data.of.pk \in Addressed(request)
                       /\ format \in {"geojson", "osm"} =>
                             /\ response.raised = NoRaise
                             /\ response.data.kind = "serialized"
                       /\ (~plain /\ format \notin {"xml", "geojson", "osm"})
                             => unknown
                 /\ Asked("history") =>
                       /\ plain => /\ response.raised = NoRaise
                                   /\ response.data.kind = "history"
                                   /\ response.data.of.pk
                                         \in Addressed(request)
                       /\ ~plain => unknown

\* the history of a submission that was found is asked for as xml
C8_Witness ==
    /\ Asked("history")
    /\ resp.request.dataid = "1"
    /\ resp.request.format = "xml"
    /\ resp.lookups = 1
    /\ resp.response.raised = "ParseError"
    /\ resp.response.detail = UnknownFormat

\* the forms the filter backends let the user see
Viewable(user) == {f \in DOMAIN XForms : has_perm(user, "view_xform", f)}

\* the pk of the route read as an integer, if it is one
PkOf(request) == {n \in -1..(Len(XForms) + 1) : ToString(n) = request.pk}

\* the tag names a comma-separated parameter lists
NamesIn(text) == {name \in {"a", "b"} : text \in {name, "a,b", "b,a"}}

\* C12: filter_queryset resolves the pk of the route: a pk that is not an
\* integer raises a parse error (Invalid pk) unless it is public, which gives
\* the forms with shared or shared_data set; an integer pk gives the form
\* with that pk from the permission-filtered set or, when that is empty, the
\* form with that pk if it has shared_data set, and otherwise a 404 (No data
\* matches with given query.); the tags and not_tagged filters are applied
\* to the form set only when no pk is given.
C12_FilterQuerysetResolvesPk ==
    Asked("filter_queryset") =>
        LET request == resp.request
            result == resp.response
            given == Given(request.pk)
            own == {f \in Viewable(request.user) : f \in PkOf(request)}
            shared == {f \in DOMAIN XForms :
                          f \in PkOf(request) /\ XForms[f].shared_data}
        IN  /\ (given /\ PkOf(request) = {} /\ request.pk # "public") =>
                 /\ result.raised = "ParseError"
                 /\ result.detail = "Invalid pk"
            /\ request.pk = "public" =>
                 /\ result.raised = NoRaise
                 /\ result.value = {f \in DOMAIN XForms :
                                       XForms[f].shared \/ XForms[f].shared_data}
            /\ (PkOf(request) # {} /\ own # {}) =>
                 result.raised = NoRaise /\ result.value = own
            /\ (PkOf(request) # {} /\ own = {} /\ shared # {}) =>
                 result.raised = NoRaise /\ result.value = shared
            /\ (PkOf(request) # {} /\ own = {} /\ shared = {}) =>
                 /\ result.raised = "Http404"
                 /\ result.detail = "No data matches with given query."
            /\ ~given =>
                 /\ result.raised = NoRaise
                 /\ result.value =
                       {f \in Viewable(request.user) :
                          /\ request.tags # None =>
                                XForms[f].tags \cap NamesIn(request.tags) # {}
                          /\ request.not_tagged # None =>
                                XForms[f].tags \cap NamesIn(request.not_tagged)
                                    = {}}

\* a form the viewer may not view is found because its data is shared,
\* whatever the tags the request names
C12_Witness ==
    /\ Asked("filter_queryset")
    /\ resp.request.user = "viewer"
    /\ resp.request.pk = "2"
    /\ resp.request.not_tagged = "a"
    /\ resp.response.raised = NoRaise
    /\ resp.response.value = {2}

----------------------------------------------------------------------------
(* Properties of calls that run side by side *)

\* both calls have written their data
BothDone == running # NoRun /\ \A p \in Callers : running[p].pc = "done"

\* the values update that wrote the data of call p: its last one
Batch(p) ==
    LET mine == {i \in 1..Len(calls) :
                    calls[i].by = p /\ calls[i].api = "values.update"}
    IN  calls[CHOOSE i \in mine : \A j \in mine : j <= i]

RowsOf(call) == call.index..(call.index + call.nrows - 1)

\* C13: when two live_update(append=True) calls on one spreadsheet run
\* concurrently then, however their remote calls interleave, the two
\* batches are written to disjoint row ranges inside the grid and below
\* the header, so that neither call overwrites rows of the other and no
\* appended submission is lost.
C13_ConcurrentAppendsDisjoint ==
    BothDone =>
        /\ RowsOf(Batch(1)) \cap RowsOf(Batch(2)) = {}
        /\ \A p \in Callers :
              RowsOf(Batch(p)) \subseteq 2..sheets[1].rowCount

====
